---------------------------- MODULE Spec2Model ----------------------------
(***************************************************************************)
(* Phishing detector: text normalisation with its content-addressed cache, *)
(* feature extraction, the scaled logistic classifier and the detector     *)
(* that composes and persists them.                                        *)
(*                                                                         *)
(* A text is a sequence of Unicode code points (97 is "a", 32 the space),  *)
(* so that case folding, the URL pattern, punctuation stripping and        *)
(* tokenisation are computed character by character, as the code does.     *)
(***************************************************************************)
EXTENDS Integers, Sequences, FiniteSets, TLC

VARIABLES
    disco_cache,  \* the snapshot file cache/preprocessamento.pkl
    pre,          \* a PreprocessadorTexto used on its own by the running process
    ultimoPre,    \* the last call made on pre and what it returned
    saidas,       \* per text: what pre.processar returned, from its first uncached computation on
    det,          \* the DetectorPhishing the running process holds
    arquivo,      \* the model artifact file
    ultimo,       \* the last call made on det and what it returned
    salvo,        \* the detector as it was when salvar last wrote the artifact
    session_state, \* st.session_state['historico'] of the web application's session
    relogio,      \* the clock datetime.now() reads, in ticks
    analises      \* the analyses saved since the history was last cleared, newest first

varsPre == <<pre, ultimoPre, saidas>>
varsDet == <<det, arquivo, ultimo, salvo>>
varsApp == <<session_state, relogio, analises>>
vars    == <<disco_cache, pre, ultimoPre, saidas, det, arquivo, ultimo, salvo,
             session_state, relogio, analises>>

(***************************************************************************)
(* Sequences and characters                                                *)
(***************************************************************************)

\* s[i..] starts with the sequence pat
Entre(c, a, b) == a <= c /\ c <= b

\* a list with the elements of f, each computed once
Lista(f) == SubSeq(f, 1, Len(f))

ComecaCom(s, i, pat) ==
    /\ i + Len(pat) - 1 <= Len(s)
    /\ \A k \in 1..Len(pat) : s[i + k - 1] = pat[k]

\* "sub in s"
Contem(s, pat) == \E i \in 1..(Len(s) - Len(pat) + 1) : ComecaCom(s, i, pat)

RECURSIVE SubstituirDe(_, _, _, _)
SubstituirDe(s, i, velho, novo) ==
    IF i > Len(s) THEN <<>>
    ELSE IF ComecaCom(s, i, velho)
         THEN novo \o SubstituirDe(s, i + Len(velho), velho, novo)
         ELSE <<s[i]>> \o SubstituirDe(s, i + 1, velho, novo)

\* str.replace(velho, novo), velho not empty
Substituir(s, velho, novo) == SubstituirDe(s, 1, velho, novo)

\* str.lower() on one character (ASCII and Latin-1 letters)
LowerChar(c) ==
    IF (65 <= c /\ c <= 90) \/ (192 <= c /\ c <= 222 /\ c # 215) THEN c + 32 ELSE c

Lower(s) == Lista([i \in 1..Len(s) |-> LowerChar(s[i])])

\* \s of the re module and str.split(): the whitespace characters
EhEspaco(c) == (9 <= c /\ c <= 13) \/ (28 <= c /\ c <= 32) \/ c = 133 \/ c = 160

\* string.punctuation
EhPontuacao(c) ==
    (33 <= c /\ c <= 47) \/ (58 <= c /\ c <= 64) \/ (91 <= c /\ c <= 96) \/ (123 <= c /\ c <= 126)

RECURSIVE SplitDe(_, _, _)
\* str.split(): the maximal runs of non-whitespace characters, in order
SplitDe(s, i, atual) ==
    IF i > Len(s) THEN (IF atual = <<>> THEN <<>> ELSE <<atual>>)
    ELSE IF EhEspaco(s[i])
         THEN (IF atual = <<>> THEN <<>> ELSE <<atual>>) \o SplitDe(s, i + 1, <<>>)
         ELSE SplitDe(s, i + 1, Append(atual, s[i]))

Split(s) == SplitDe(s, 1, <<>>)

RECURSIVE Join(_)
\* ' '.join(palavras)
Join(palavras) ==
    IF palavras = <<>> THEN <<>>
    ELSE IF Len(palavras) = 1 THEN palavras[1]
    ELSE palavras[1] \o <<32>> \o Join(Tail(palavras))

(***************************************************************************)
(* PreprocessadorTexto: the normalisation steps                            *)
(***************************************************************************)

URL_TOKEN == <<85, 82, 76, 95, 84, 79, 75, 69, 78>>          \* "URL_TOKEN"

\* one character of the URL pattern's repeated group
\* [a-zA-Z] | [0-9] | [$-_@.&+] | [!*\\(\\),] ; the range $-_ is 36..95
EhCharUrl(c) ==
    \/ Entre(c, 97, 122) \/ Entre(c, 65, 90) \/ Entre(c, 48, 57) \/ Entre(c, 36, 95)
    \/ c = 33 \/ c = 42 \/ c = 92 \/ c = 40 \/ c = 41 \/ c = 44

RECURSIVE CorridaUrl(_, _)
\* the length of the longest run of URL characters starting at s[i]
CorridaUrl(s, i) ==
    IF i <= Len(s) /\ EhCharUrl(s[i]) THEN 1 + CorridaUrl(s, i + 1) ELSE 0

\* the length of the match of padrao_url at s[i], 0 when there is none:
\* http[s]?://(...)+  , greedy
CasaUrl(s, i) ==
    LET http  == <<104, 116, 116, 112>>
        barra == <<58, 47, 47>>
        cabeca == IF ComecaCom(s, i, http \o <<115>> \o barra) THEN 8
                  ELSE IF ComecaCom(s, i, http \o barra) THEN 7
                  ELSE 0
        corpo == IF cabeca = 0 THEN 0 ELSE CorridaUrl(s, i + cabeca)
    IN  IF corpo = 0 THEN 0 ELSE cabeca + corpo

RECURSIVE LimparUrlDe(_, _)
LimparUrlDe(s, i) ==
    IF i > Len(s) THEN <<>>
    ELSE IF CasaUrl(s, i) > 0
         THEN <<32>> \o URL_TOKEN \o <<32>> \o LimparUrlDe(s, i + CasaUrl(s, i))
         ELSE <<s[i]>> \o LimparUrlDe(s, i + 1)

\* re.sub(padrao_url, ' URL_TOKEN ', texto)
limpar_url(texto) == LimparUrlDe(texto, 1)

RECURSIVE ContarCasasUrl(_, _)
ContarCasasUrl(s, i) ==
    IF i > Len(s) THEN 0
    ELSE IF CasaUrl(s, i) > 0 THEN 1 + ContarCasasUrl(s, i + CasaUrl(s, i))
    ELSE ContarCasasUrl(s, i + 1)

\* len(re.findall(padrao_url, texto)): the matches that re.sub replaces
urls_encontradas(texto) == ContarCasasUrl(texto, 1)

ManterNaoPontuacao(c) == ~EhPontuacao(c)
ManterAscii(c) == c < 128

\* limpar_caracteres_especiais without the restoration of the sentinel
limpar_caracteres_especiais_sem_restaurar(texto) ==
    SelectSeq(SelectSeq(texto, ManterNaoPontuacao), ManterAscii)

limpar_caracteres_especiais(texto) ==
    LET has_url_token == Contem(texto, URL_TOKEN)
        sem_pontuacao == SelectSeq(texto, ManterNaoPontuacao)
        ascii         == SelectSeq(sem_pontuacao, ManterAscii)
    IN  IF has_url_token
        THEN Substituir(ascii, <<85, 82, 76, 84, 79, 75, 69, 78>>, URL_TOKEN)
        ELSE ascii

RECURSIVE ColapsarEspacos(_, _)
\* re.sub(r'\s+', ' ', texto)
ColapsarEspacos(s, i) ==
    IF i > Len(s) THEN <<>>
    ELSE IF EhEspaco(s[i])
         THEN (IF i > 1 /\ EhEspaco(s[i - 1]) THEN <<>> ELSE <<32>>) \o ColapsarEspacos(s, i + 1)
         ELSE <<s[i]>> \o ColapsarEspacos(s, i + 1)

RECURSIVE StripEsq(_)
StripEsq(s) == IF s # <<>> /\ EhEspaco(Head(s)) THEN StripEsq(Tail(s)) ELSE s

RECURSIVE StripDir(_)
StripDir(s) ==
    IF s # <<>> /\ EhEspaco(s[Len(s)]) THEN StripDir(SubSeq(s, 1, Len(s) - 1)) ELSE s

normalizar_espacos(texto) == StripDir(StripEsq(ColapsarEspacos(texto, 1)))

\* stopwords.words(idioma): the words of the NLTK lists that occur in the
\* texts of this model; a language NLTK does not know gives the empty set
StopwordsNltk(idioma) ==
    IF idioma = "english"
    THEN { <<116, 104, 101>>, <<110, 111, 119>>, <<97>>, <<105, 115>> }   \* the now a is
    ELSE IF idioma = "portuguese"
    THEN { <<97>>, <<111>>, <<100, 101>>, <<233>> }                      \* a o de é
    ELSE {}

\* the protected words of __init__: urgent immediately now act verify confirm
\* suspended expires limited expire hurry quick
palavras_urgencia_pre ==
    { <<117, 114, 103, 101, 110, 116>>,
      <<105, 109, 109, 101, 100, 105, 97, 116, 101, 108, 121>>,
      <<110, 111, 119>>,
      <<97, 99, 116>>,
      <<118, 101, 114, 105, 102, 121>>,
      <<99, 111, 110, 102, 105, 114, 109>>,
      <<115, 117, 115, 112, 101, 110, 100, 101, 100>>,
      <<101, 120, 112, 105, 114, 101, 115>>,
      <<108, 105, 109, 105, 116, 101, 100>>,
      <<101, 120, 112, 105, 114, 101>>,
      <<104, 117, 114, 114, 121>>,
      <<113, 117, 105, 99, 107>> }

\* remover_stopwords_texto comparing the words as they are written
remover_stopwords_texto_sem_lower(p, texto) ==
    IF ~p.remover_stopwords THEN texto
    ELSE LET NaoStopword(palavra) == palavra \notin p.stopwords
         IN  Join(SelectSeq(Split(texto), NaoStopword))

remover_stopwords_texto(p, texto) ==
    IF ~p.remover_stopwords THEN texto
    ELSE LET NaoStopword(palavra) == Lower(palavra) \notin p.stopwords
         IN  Join(SelectSeq(Split(texto), NaoStopword))

_processar_sem_cache(p, texto) ==
    remover_stopwords_texto(p,
        normalizar_espacos(limpar_caracteres_especiais(limpar_url(Lower(texto)))))

(***************************************************************************)
(* CachePreprocessamento                                                   *)
(***************************************************************************)

\* The MD5 digest of the text. MD5 has no collision among the texts of the
\* model, so the digest is a tagged copy of the text it was computed from.
_gerar_hash(texto) == [md5 |-> texto]

CacheVazio == [h \in {} |-> <<>>]

\* the snapshot file: whether it exists, and the pickled dictionary
SemArquivo == [existe |-> FALSE, conteudo |-> CacheVazio]

\* __init__ without _carregar_cache
CachePreprocessamento_sem_carregar(disco) == [cache_memoria |-> CacheVazio]

\* __init__ then _carregar_cache: the dictionary of the snapshot, when there is one
CachePreprocessamento(disco) ==
    [cache_memoria |-> IF disco.existe THEN disco.conteudo ELSE CacheVazio]

\* salvar_cache: what the snapshot file holds afterwards
salvar_cache(cache) == [existe |-> TRUE, conteudo |-> cache.cache_memoria]

\* obter answering a hit with the text it was asked about
obter_texto_bruto(cache, texto) ==
    IF _gerar_hash(texto) \in DOMAIN cache.cache_memoria
    THEN [achou |-> TRUE, valor |-> texto]
    ELSE [achou |-> FALSE, valor |-> <<>>]

\* obter: achou = FALSE stands for the None of dict.get
obter(cache, texto) ==
    LET hash_texto == _gerar_hash(texto)
    IN  IF hash_texto \in DOMAIN cache.cache_memoria
        THEN [achou |-> TRUE, valor |-> cache.cache_memoria[hash_texto]]
        ELSE [achou |-> FALSE, valor |-> <<>>]

\* adicionar storing the original text under its hash
adicionar_trocado(cache, texto_original, texto_processado) ==
    [cache EXCEPT !.cache_memoria =
        [h \in DOMAIN cache.cache_memoria \cup {_gerar_hash(texto_original)} |->
            IF h = _gerar_hash(texto_original) THEN texto_original
            ELSE cache.cache_memoria[h]]]

adicionar(cache, texto_original, texto_processado) ==
    LET hash_texto == _gerar_hash(texto_original)
    IN  [cache EXCEPT !.cache_memoria =
            [h \in DOMAIN cache.cache_memoria \cup {hash_texto} |->
                IF h = hash_texto THEN texto_processado ELSE cache.cache_memoria[h]]]

\* limpar that leaves the dictionary as it is
limpar_sem_efeito(cache) == cache

\* limpar: the dictionary in memory (the file is removed by the caller's action)
limpar(cache) == [cache EXCEPT !.cache_memoria = CacheVazio]

(***************************************************************************)
(* PreprocessadorTexto: construction and processar                         *)
(***************************************************************************)

PreprocessadorTexto(idioma, remover_stopwords, disco) ==
    [idioma            |-> idioma,
     remover_stopwords |-> remover_stopwords,
     cache             |-> CachePreprocessamento(disco),
     stopwords         |-> (IF remover_stopwords THEN StopwordsNltk(idioma) ELSE {})
                               \ palavras_urgencia_pre]

\* A value that is not a str is written as a sequence that starts with a
\* negative tag: <<-1>> is None, <<-2, n>> the integer n.
isinstance_str(valor) == valor = <<>> \/ Head(valor) >= 0

\* processar without its first test
processar_sem_guarda(p, texto) ==
    IF obter(p.cache, texto).achou
    THEN [ret |-> obter(p.cache, texto).valor, cache |-> p.cache, via |-> "cache"]
    ELSE [ret   |-> _processar_sem_cache(p, texto),
          cache |-> adicionar(p.cache, texto, _processar_sem_cache(p, texto)),
          via   |-> "sem_cache"]

\* processar: the string returned, the cache afterwards, and the path taken;
\* "not texto" holds of the empty string and of None and 0, which are not str
processar(p, texto) ==
    IF texto = <<>> \/ ~isinstance_str(texto)
    THEN [ret |-> <<>>, cache |-> p.cache, via |-> "vazio"]
    ELSE LET resultado_cache == obter(p.cache, texto)
         IN  IF resultado_cache.achou
             THEN [ret |-> resultado_cache.valor, cache |-> p.cache, via |-> "cache"]
             ELSE LET texto_processado == _processar_sem_cache(p, texto)
                  IN  [ret   |-> texto_processado,
                       cache |-> adicionar(p.cache, texto, texto_processado),
                       via   |-> "sem_cache"]

(***************************************************************************)
(* ExtratorFeatures: the hand-crafted features                             *)
(***************************************************************************)

\* str.isalpha() and str.isupper() on one character (ASCII and Latin-1)
EhLetra(c) ==
    \/ Entre(c, 65, 90) \/ Entre(c, 97, 122) \/ c = 170 \/ c = 181 \/ c = 186
    \/ Entre(c, 192, 214) \/ Entre(c, 216, 246) \/ Entre(c, 248, 255)

EhMaiuscula(c) == Entre(c, 65, 90) \/ Entre(c, 192, 214) \/ Entre(c, 216, 222)

RECURSIVE ContarUrlsDe(_, _)
\* re.findall(r'http[s]?://|URL_TOKEN|www\.', s): the matches, left to right
ContarUrlsDe(s, i) ==
    LET http  == <<104, 116, 116, 112>>
        barra == <<58, 47, 47>>
        casa  == IF ComecaCom(s, i, http \o <<115>> \o barra) THEN 8
                 ELSE IF ComecaCom(s, i, http \o barra) THEN 7
                 ELSE IF ComecaCom(s, i, URL_TOKEN) THEN 9
                 ELSE IF ComecaCom(s, i, <<119, 119, 119, 46>>) THEN 4
                 ELSE 0
    IN  IF i > Len(s) THEN 0
        ELSE IF casa > 0 THEN 1 + ContarUrlsDe(s, i + casa)
        ELSE ContarUrlsDe(s, i + 1)

\* the pattern is searched in texto.lower()
contar_urls(texto) == ContarUrlsDe(Lower(texto), 1)

\* a proportion taken over every character of the text, not over its letters
proporcao_maiusculas_sobre_tudo(texto) ==
    IF texto = <<>> THEN <<0, 1>>
    ELSE <<Len(SelectSeq(texto, EhMaiuscula)), Len(texto)>>

\* the ratio maiusculas / len(letras) as the pair <<numerator, denominator>>;
\* <<0, 1>> is the 0.0 of a text without letters
proporcao_maiusculas(texto) ==
    LET letras     == SelectSeq(texto, EhLetra)
        maiusculas == Len(SelectSeq(letras, EhMaiuscula))
    IN  IF texto = <<>> THEN <<0, 1>>
        ELSE IF letras = <<>> THEN <<0, 1>>
        ELSE <<maiusculas, Len(letras)>>

\* [!?$%&*@#]
EhEspecial(c) == c = 33 \/ c = 63 \/ Entre(c, 35, 38) \/ c = 42 \/ c = 64

contar_caracteres_especiais(texto) == Len(SelectSeq(texto, EhEspecial))

palavras_urgencia ==
    << <<117, 114, 103, 101, 110, 116>>,                          \* urgent
       <<105, 109, 109, 101, 100, 105, 97, 116, 101, 108, 121>>,  \* immediately
       <<110, 111, 119>>,                                         \* now
       <<101, 120, 112, 105, 114, 101>>,                          \* expire
       <<115, 117, 115, 112, 101, 110, 100, 101, 100>>,           \* suspended
       <<118, 101, 114, 105, 102, 121>>,                          \* verify
       <<99, 111, 110, 102, 105, 114, 109>>,                      \* confirm
       <<99, 108, 105, 99, 107>>,                                 \* click
       <<97, 99, 116>>,                                           \* act
       <<108, 105, 109, 105, 116, 101, 100>>,                     \* limited
       <<104, 117, 114, 114, 121>> >>                             \* hurry

palavras_financeiras ==
    << <<109, 111, 110, 101, 121>>,                               \* money
       <<98, 97, 110, 107>>,                                      \* bank
       <<97, 99, 99, 111, 117, 110, 116>>,                        \* account
       <<99, 114, 101, 100, 105, 116>>,                           \* credit
       <<99, 97, 114, 100>>,                                      \* card
       <<112, 97, 121, 109, 101, 110, 116>>,                      \* payment
       <<105, 110, 118, 111, 105, 99, 101>>,                      \* invoice
       <<116, 114, 97, 110, 115, 102, 101, 114>>,                 \* transfer
       <<119, 105, 114, 101>>,                                    \* wire
       <<100, 111, 108, 108, 97, 114>>,                           \* dollar
       <<112, 114, 105, 122, 101>>,                               \* prize
       <<119, 105, 110, 110, 101, 114>> >>                        \* winner

\* sum(1 for palavra in lista if palavra in texto_lower)
ContarPresentes(lista, texto_lower) ==
    Cardinality({k \in 1..Len(lista) : Contem(texto_lower, lista[k])})

detectar_palavras_urgencia(texto) == ContarPresentes(palavras_urgencia, Lower(texto))

detectar_palavras_financeiras(texto) == ContarPresentes(palavras_financeiras, Lower(texto))

tamanho_texto(texto) == Len(Split(texto))

\* A feature matrix holds numbers with one decimal digit, written as integers
\* in tenths; a ratio is rounded down to the tenth.
EmDecimos(razao) == (razao[1] * 10) \div razao[2]

\* one row of extrair_features_manuais, in the column order of the DataFrame
FeaturesManuais(texto, original) ==
    << contar_urls(texto) * 10,
       EmDecimos(proporcao_maiusculas(original)),
       contar_caracteres_especiais(original) * 10,
       detectar_palavras_urgencia(texto) * 10,
       detectar_palavras_financeiras(texto) * 10,
       tamanho_texto(texto) * 10 >>

\* zip(textos, textos_originais) stops at the shorter list
extrair_features_manuais(textos, textos_originais) ==
    LET n == IF Len(textos) <= Len(textos_originais) THEN Len(textos) ELSE Len(textos_originais)
    IN  Lista([i \in 1..n |-> FeaturesManuais(textos[i], textos_originais[i])])

\* criar_features_basicas: every feature computed on the one text given
criar_features_basicas(texto) ==
    [num_urls             |-> contar_urls(texto),
     prop_maiusculas      |-> proporcao_maiusculas(texto),
     num_especiais        |-> contar_caracteres_especiais(texto),
     palavras_urgencia    |-> detectar_palavras_urgencia(texto),
     palavras_financeiras |-> detectar_palavras_financeiras(texto),
     tamanho_texto        |-> tamanho_texto(texto)]

(***************************************************************************)
(* ExtratorFeatures: the TF-IDF vocabulary                                 *)
(***************************************************************************)

\* \w of the token pattern
EhCharPalavra(c) ==
    \/ Entre(c, 48, 57) \/ c = 95 \/ c = 178 \/ c = 179 \/ c = 185 \/ Entre(c, 188, 190)
    \/ EhLetra(c)

RECURSIVE TokensDe(_, _, _)
\* token_pattern (?u)\b\w\w+\b : the runs of two or more word characters
TokensDe(s, i, atual) ==
    LET fecha == IF Len(atual) >= 2 THEN <<atual>> ELSE <<>>
    IN  IF i > Len(s) THEN fecha
        ELSE IF EhCharPalavra(s[i]) THEN TokensDe(s, i + 1, Append(atual, s[i]))
        ELSE fecha \o TokensDe(s, i + 1, <<>>)

\* the 1-grams and the 2-grams of a list of tokens (ngram_range = (1, 2))
NGramas(tokens) ==
    IF Len(tokens) < 2 THEN tokens
    ELSE tokens \o [i \in 1..(Len(tokens) - 1) |-> tokens[i] \o <<32>> \o tokens[i + 1]]

\* the analyzer of the vectorizer: lowercase, tokens, n-grams, with repetitions
Termos(texto) == NGramas(TokensDe(Lower(texto), 1, <<>>))

\* the order of Python strings: by code point, a prefix first
RECURSIVE MenorTexto(_, _)
MenorTexto(a, b) ==
    IF a = <<>> THEN b # <<>>
    ELSE IF b = <<>> THEN FALSE
    ELSE IF Head(a) # Head(b) THEN Head(a) < Head(b)
    ELSE MenorTexto(Tail(a), Tail(b))

RECURSIVE Ordenar(_)
MenorPrimeiro(termos, menor) == <<menor>> \o Ordenar(termos \ {menor})

\* sorted(termos)
Ordenar(termos) ==
    IF termos = {} THEN <<>>
    ELSE MenorPrimeiro(termos, CHOOSE t \in termos : \A u \in termos \ {t} : MenorTexto(t, u))

VectorizerNovo == [ajustado |-> FALSE, vocabulary_ |-> <<>>]

Elementos(s) == {s[k] : k \in 1..Len(s)}

RECURSIVE ConjuntosDeTermos(_)
\* for each text, the set of its terms
ConjuntosDeTermos(textos) ==
    IF textos = <<>> THEN <<>>
    ELSE <<Elementos(Termos(Head(textos)))>> \o ConjuntosDeTermos(Tail(textos))

\* min_df = 2 and max_df = 0.8: the terms found in at least 2 documents and
\* in at most 80% of them
TermosMantidos(conjuntos) ==
    {t \in UNION Elementos(conjuntos) :
        /\ Cardinality({i \in 1..Len(conjuntos) : t \in conjuntos[i]}) >= 2
        /\ Cardinality({i \in 1..Len(conjuntos) : t \in conjuntos[i]}) * 10 <= 8 * Len(conjuntos)}

\* the vocabulary indexed in sorted order; the ValueError of an empty
\* vocabulary leaves the vectorizer as before
ComVocabulario(vectorizer, mantidos) ==
    IF mantidos = {}
    THEN [erro |-> "ValueError", vectorizer |-> vectorizer]
    ELSE [erro |-> "", vectorizer |-> [ajustado |-> TRUE, vocabulary_ |-> Ordenar(mantidos)]]

\* TfidfVectorizer.fit on the texts. The cap max_features (3000) is above
\* every vocabulary of the model.
treinar_tfidf(vectorizer, textos) ==
    ComVocabulario(vectorizer, TermosMantidos(ConjuntosDeTermos(textos)))

\* one row of transformar_tfidf: a weight per vocabulary term, positive
\* exactly when the term occurs in the text. The model keeps the number of
\* occurrences in place of the sublinear, idf-weighted, normalised value.
Contagens(vocabulary_, termos) ==
    Lista([j \in 1..Len(vocabulary_) |->
              10 * Cardinality({k \in 1..Len(termos) : termos[k] = vocabulary_[j]})])

LinhaTfidf(vectorizer, texto) == Contagens(vectorizer.vocabulary_, Termos(texto))

transformar_tfidf(vectorizer, textos) ==
    Lista([i \in 1..Len(textos) |-> LinhaTfidf(vectorizer, textos[i])])

\* np.hstack([A, B]), row by row
\* hstack with the two blocks exchanged
hstack_invertido(A, B) == Lista([i \in 1..Len(A) |-> B[i] \o A[i]])

hstack(A, B) == Lista([i \in 1..Len(A) |-> A[i] \o B[i]])

\* extrair_features_completas: the lexical weights, then the hand-crafted
\* values. An unfitted vectorizer raises NotFittedError.
extrair_features_completas(vectorizer, textos, textos_originais) ==
    IF ~vectorizer.ajustado
    THEN [erro |-> "NotFittedError", X |-> <<>>]
    ELSE [erro |-> "",
          X    |-> hstack(transformar_tfidf(vectorizer, textos),
                          extrair_features_manuais(textos, textos_originais))]

(***************************************************************************)
(* StandardScaler and LogisticRegression                                   *)
(***************************************************************************)

RECURSIVE SomaSeq(_)
SomaSeq(s) == IF s = <<>> THEN 0 ELSE Head(s) + SomaSeq(Tail(s))

Abs(x) == IF x < 0 THEN -x ELSE x

\* the integer part of the square root
Raiz(n) == CHOOSE r \in 0..n : r * r <= n /\ n < (r + 1) * (r + 1)

ScalerNovo == [ajustado |-> FALSE, n_samples_seen_ |-> 0, mean_ |-> <<>>, var_ |-> <<>>]

SomaColuna(X, j) == SomaSeq([i \in 1..Len(X) |-> X[i][j]])

SomaQuadrados(X, j) == SomaSeq([i \in 1..Len(X) |-> X[i][j] * X[i][j]])

Variancia(n, soma, soma_quadrados) == n * soma_quadrados - soma * soma

\* StandardScaler.fit(X), X with at least one row. The statistics are kept
\* exactly, as numerators: mean_[j] is the sum of column j, over the
\* denominator n_samples_seen_; var_[j] is n * sum(x^2) - sum(x)^2, over the
\* denominator n_samples_seen_^2.
ScalerFit(X) ==
    [ajustado        |-> TRUE,
     n_samples_seen_ |-> Len(X),
     mean_           |-> Lista([j \in 1..Len(X[1]) |-> SomaColuna(X, j)]),
     var_            |-> Lista([j \in 1..Len(X[1]) |->
                             Variancia(Len(X), SomaColuna(X, j), SomaQuadrados(X, j))])]

\* desvio is n * (x - mean); scale_ is the square root of the variance, and 1
\* for a constant column
Escalar(desvio, n, variancia) ==
    IF variancia = 0
    THEN (IF desvio < 0 THEN -1 ELSE 1) * (Abs(desvio) \div n)
    ELSE (IF desvio < 0 THEN -1 ELSE 1) * Raiz((100 * desvio * desvio) \div variancia)

\* (x - mean_) / scale_ for one value, in tenths
Padronizar(scaler, j, x) ==
    Escalar(scaler.n_samples_seen_ * x - scaler.mean_[j], scaler.n_samples_seen_, scaler.var_[j])

\* StandardScaler.transform(X): NotFittedError before fit, ValueError for
\* rows of another length than the one seen by fit
ScalerTransform(scaler, X) ==
    IF ~scaler.ajustado THEN [erro |-> "NotFittedError", X |-> <<>>]
    ELSE IF \E i \in 1..Len(X) : Len(X[i]) # Len(scaler.mean_)
    THEN [erro |-> "ValueError", X |-> <<>>]
    ELSE [erro |-> "",
          X |-> Lista([i \in 1..Len(X) |->
                          Lista([j \in 1..Len(X[i]) |-> Padronizar(scaler, j, X[i][j])])])]

ModeloNovo == [ajustado |-> FALSE, coef_ |-> <<>>, intercept_ |-> 0]

\* decision_function: the log-odds of one standardised row, in tenths
decision_function(modelo, linha) ==
    SomaSeq([j \in 1..Len(linha) |-> modelo.coef_[j] * linha[j]]) + 10 * modelo.intercept_

\* LogisticRegression.predict: class 1 exactly for positive log-odds
\* predict answering 1 from log-odds 0 on
predict_inclusivo(modelo, linha) == IF decision_function(modelo, linha) >= 0 THEN 1 ELSE 0

predict(modelo, linha) == IF decision_function(modelo, linha) > 0 THEN 1 ELSE 0

\* the logistic function 1/(1+exp(-z)) of log-odds z (in tenths), in whole
\* tenths rounded down, so that comparing it with 0.3, 0.5 and 0.7 is
\* exact: it is 0.5 at z = 0, reaches 0.6 between z = 0.4 and 0.5, 0.7
\* between 0.8 and 0.9, 0.8 between 1.3 and 1.4, 0.9 between 2.1 and 2.2,
\* and is the double 1.0 from z = 36.8 on
Expit(z) ==
    IF z >= 368 THEN 10
    ELSE IF z >= 22 THEN 9
    ELSE IF z >= 14 THEN 8
    ELSE IF z >= 9 THEN 7
    ELSE IF z >= 5 THEN 6
    ELSE IF z >= 0 THEN 5
    ELSE IF z >= -4 THEN 4
    ELSE IF z >= -8 THEN 3
    ELSE IF z >= -13 THEN 2
    ELSE IF z >= -21 THEN 1
    ELSE 0

\* predict_proba(X)[:, 1] for one row: the probability of phishing, in tenths
predict_proba(modelo, linha) == Expit(decision_function(modelo, linha))

(***************************************************************************)
(* DetectorPhishing                                                        *)
(***************************************************************************)

\* self.metricas: {} until a training sets it. Of the dictionary the model
\* keeps the accuracy on the test split (hits, rows) and whether the
\* cross-validation scores are in it.
SemMetricas == [definidas |-> FALSE, acuracia_teste |-> <<0, 1>>, cv |-> FALSE]

\* __init__: the preprocessor (which loads the cache snapshot), the extractor,
\* the scaler and the classifier, all unfitted
DetectorPhishing(idioma, disco) ==
    [idioma         |-> idioma,
     preprocessador |-> PreprocessadorTexto(idioma, TRUE, disco),
     extrator       |-> [vectorizer |-> VectorizerNovo],
     scaler         |-> ScalerNovo,
     modelo         |-> ModeloNovo,
     esta_treinado  |-> FALSE,
     metricas       |-> SemMetricas]

\* the list so far, with the return of one more call of processar
Anexar(feito, r) ==
    [rets |-> Append(feito.rets, r.ret), vias |-> Append(feito.vias, r.via), cache |-> r.cache]

RECURSIVE ProcessarDe(_, _, _)
\* the calls for the first half of the texts, then those for the second half
ProcessarDe(p, textos, feito) ==
    IF textos = <<>> THEN feito
    ELSE IF Len(textos) = 1
    THEN Anexar(feito, processar([p EXCEPT !.cache = feito.cache], textos[1]))
    ELSE \* the first half is finished (its list has a length) before the
         \* second half starts
         LET Depois(metade) ==
                 IF Len(metade.rets) >= 0
                 THEN ProcessarDe(p, SubSeq(textos, (Len(textos) \div 2) + 1, Len(textos)), metade)
                 ELSE metade
         IN  Depois(ProcessarDe(p, SubSeq(textos, 1, Len(textos) \div 2), feito))

\* [self.processar(texto) for texto in textos]: the strings, the path each
\* call took, and the cache as the calls leave it
ProcessarSequencial(p, textos) ==
    ProcessarDe(p, textos, [rets |-> <<>>, vias |-> <<>>, cache |-> p.cache])

\* processar_lote whose pool gives the texts back in reverse order
processar_lote_invertido(p, textos, usar_paralelo) ==
    IF ~usar_paralelo \/ Len(textos) < 100
    THEN ProcessarSequencial(p, textos)
    ELSE [rets  |-> Lista([i \in 1..Len(textos) |->
                               processar(p, textos[Len(textos) + 1 - i]).ret]),
          vias  |-> Lista([i \in 1..Len(textos) |-> "pool"]),
          cache |-> p.cache]

\* processar_lote: sequential below 100 texts; above, pool.map runs
\* processar on copies of the preprocessor in the worker processes, whose
\* caches are lost when the pool ends
processar_lote(p, textos, usar_paralelo) ==
    IF ~usar_paralelo \/ Len(textos) < 100
    THEN ProcessarSequencial(p, textos)
    ELSE [rets  |-> Lista([i \in 1..Len(textos) |-> processar(p, textos[i]).ret]),
          vias  |-> Lista([i \in 1..Len(textos) |-> "pool"]),
          cache |-> p.cache]

\* what preparar_dados hands on: the exception raised ("" for none), the
\* detector afterwards, the normalised texts with the path each took, the
\* feature matrix before scaling and the matrix X that goes on
Preparado(erro, depois, lote, features, X) ==
    [erro |-> erro, det |-> depois, processados |-> lote.rets, vias |-> lote.vias,
     features |-> features, X |-> X]

\* the scaler: fit_transform for a first training, else transform when trained
Escalado(d, ajusta, lote, feats, escala, Xs) ==
    IF Xs.erro # "" THEN Preparado(Xs.erro, d, lote, feats.X, <<>>)
    ELSE Preparado("", [d EXCEPT !.scaler = escala], lote, feats.X, Xs.X)

ComScaler(d, ajusta, lote, feats, escala) ==
    Escalado(d, ajusta, lote, feats, escala,
             IF ajusta \/ d.esta_treinado THEN ScalerTransform(escala, feats.X)
             ELSE [erro |-> "", X |-> feats.X])

ComFeatures(d, ajusta, lote, feats) ==
    IF feats.erro # "" THEN Preparado(feats.erro, d, lote, <<>>, <<>>)
    ELSE ComScaler(d, ajusta, lote, feats, IF ajusta THEN ScalerFit(feats.X) ELSE d.scaler)

\* the vocabulary is fitted for a first training only
ComTfidf(d, textos, ajusta, lote, tfidf) ==
    IF tfidf.erro # "" THEN Preparado(tfidf.erro, d, lote, <<>>, <<>>)
    ELSE ComFeatures([d EXCEPT !.extrator.vectorizer = tfidf.vectorizer], ajusta, lote,
                     extrair_features_completas(tfidf.vectorizer, lote.rets, textos))

\* preparar_dados fitting the vocabulary in every call
ComLote_sempre_ajusta(d, textos, ajusta, lote) ==
    ComTfidf([d EXCEPT !.preprocessador.cache = lote.cache], textos, ajusta, lote,
             treinar_tfidf(d.extrator.vectorizer, lote.rets))

ComLote(d, textos, ajusta, lote) ==
    ComTfidf([d EXCEPT !.preprocessador.cache = lote.cache], textos, ajusta, lote,
             IF ajusta THEN treinar_tfidf(d.extrator.vectorizer, lote.rets)
             ELSE [erro |-> "", vectorizer |-> d.extrator.vectorizer])

\* preparar_dados up to the split, step by step: processar_lote, the
\* vocabulary, the features, the scaler. com_labels says whether labels
\* were given.
preparar_dados(d, textos, com_labels) ==
    ComLote(d, textos, com_labels /\ ~d.esta_treinado,
            processar_lote(d.preprocessador, textos, TRUE))

\* _calcular_nivel_risco, the probability in tenths
\* the bands with their boundaries on the lower side
_calcular_nivel_risco_inclusivo(probabilidade) ==
    IF probabilidade <= 3 THEN "BAIXO"
    ELSE IF probabilidade <= 7 THEN "MEDIO"
    ELSE "ALTO"

\* _calcular_nivel_risco whose highest band starts at one half
_calcular_nivel_risco_metade(probabilidade) ==
    IF probabilidade < 3 THEN "BAIXO"
    ELSE IF probabilidade < 5 THEN "MEDIO"
    ELSE "ALTO"

_calcular_nivel_risco(probabilidade) ==
    IF probabilidade < 3 THEN "BAIXO"
    ELSE IF probabilidade < 7 THEN "MEDIO"
    ELSE "ALTO"

SemResultado == [predicao |-> 0, probabilidade |-> 0, decisao |-> 0, classificacao |-> "",
                 nivel_risco |-> "", com_features |-> FALSE, features |-> criar_features_basicas(<<>>),
                 processado |-> <<>>, via |-> "", linha |-> <<>>]

\* the label, the probability and the log-odds of the one row of dados
Predicao(d, dados) ==
    IF dados.erro # ""
    THEN [erro |-> dados.erro, det |-> dados.det, ret |-> SemResultado]
    ELSE [erro |-> "",
          det  |-> dados.det,
          ret  |-> [SemResultado EXCEPT
                      !.predicao      = predict(d.modelo, dados.X[1]),
                      !.probabilidade = predict_proba(d.modelo, dados.X[1]),
                      !.decisao       = decision_function(d.modelo, dados.X[1]),
                      !.processado    = dados.processados[1],
                      !.via           = dados.vias[1],
                      !.linha         = dados.features[1]]]

\* predizer without its check of esta_treinado
predizer_sem_verificacao(d, texto) == Predicao(d, preparar_dados(d, <<texto>>, FALSE))

\* predizer([texto]): the error raised, the detector afterwards, and for the
\* one text its label, probability, log-odds, normalised form, the path
\* processar took and the feature row before scaling
predizer(d, texto) ==
    IF ~d.esta_treinado
    THEN [erro |-> "ValueError", det |-> d, ret |-> SemResultado]
    ELSE Predicao(d, preparar_dados(d, <<texto>>, FALSE))

\* the dictionary analisar_email builds from the return p of predizer
Analise(texto, mostrar_features, p) ==
    IF p.erro # "" THEN p
    ELSE [p EXCEPT
            !.ret.classificacao = IF p.ret.predicao = 1 THEN "PHISHING" ELSE "LEGITIMO",
            !.ret.nivel_risco   = _calcular_nivel_risco(p.ret.probabilidade),
            !.ret.com_features  = mostrar_features,
            !.ret.features      = IF mostrar_features THEN criar_features_basicas(texto)
                                  ELSE SemResultado.features]

analisar_email(d, texto, mostrar_features) ==
    IF ~d.esta_treinado
    THEN [erro |-> "ValueError", det |-> d, ret |-> SemResultado]
    ELSE Analise(texto, mostrar_features, predizer(d, texto))

\* ceil(0.2 * n): the size of the test split for test_size = 0.2
TamanhoTeste(n) == (2 * n + 9) \div 10

Classe(labels, k) == {i \in 1..Len(labels) : labels[i] = k}

\* train_test_split(..., stratify=labels) raises ValueError when a class has
\* fewer than 2 members or a split is smaller than the number of classes
SplitFalha(labels) ==
    LET n       == Len(labels)
        classes == {labels[i] : i \in 1..n}
    IN  \/ \E k \in classes : Cardinality(Classe(labels, k)) < 2
        \/ TamanhoTeste(n) < Cardinality(classes)
        \/ n - TamanhoTeste(n) < Cardinality(classes)

\* the test splits a stratified shuffle can give: TamanhoTeste(n) rows, each
\* class with its share rounded down, and the rows left over given to the
\* classes with the largest remainders (_approximate_mode). Which rows
\* random_state = 42 picks is not modelled: any such set may come out.
TestesPossiveis(labels) ==
    LET n == Len(labels)
        t == TamanhoTeste(n)
        classes == {labels[i] : i \in 1..n}
        Piso(k)  == (t * Cardinality(Classe(labels, k))) \div n
        Resto(k) == (t * Cardinality(Classe(labels, k))) % n
        Tem(T, k) == Cardinality(T \cap Classe(labels, k))
    IN  {T \in SUBSET (1..n) :
            /\ Cardinality(T) = t
            /\ \A k \in classes : Tem(T, k) \in {Piso(k), Piso(k) + 1}
            /\ \A k1, k2 \in classes :
                  (Tem(T, k1) > Piso(k1) /\ Tem(T, k2) = Piso(k2)) => Resto(k1) >= Resto(k2)}

RECURSIVE EmOrdem(_)
\* the elements of a set of numbers, in increasing order
EmOrdem(S) ==
    IF S = {} THEN <<>>
    ELSE LET m == CHOOSE a \in S : \A b \in S : a <= b
         IN  <<m>> \o EmOrdem(S \ {m})

Selecionar(M, ordem) == Lista([k \in 1..Len(ordem) |-> M[ordem[k]]])

\* the rows of M whose index is in S
Linhas(M, S) == Selecionar(M, EmOrdem(S))

\* cross_val_score(cv=5) raises ValueError when there are fewer than 5
\* training rows or no class has 5 members
ValidacaoFalha(y_train) ==
    \/ Len(y_train) < 5
    \/ \A k \in {y_train[i] : i \in 1..Len(y_train)} : Cardinality(Classe(y_train, k)) < 5

\* accuracy_score of the fitted model on rows X, labels y: the hits
Acertos(modelo, X, y) == Cardinality({i \in 1..Len(X) : predict(modelo, X[i]) = y[i]})

\* roc_auc_score raises ValueError when y_test holds one class only
AucFalha(y_test) == Cardinality({y_test[i] : i \in 1..Len(y_test)}) < 2

\* treinar from the return of its call preparar_dados(textos, labels) on, for
\* the test split teste that train_test_split gives and the weights pesos
\* the optimiser returns: the exception raised ("" for none), the detector
\* as the call leaves it, and the unscaled feature rows of the training split
treinar(dados, labels, validacao_cruzada, teste, pesos) ==
    LET treino  == (1..Len(labels)) \ teste
        X_train == Linhas(dados.X, treino)
        X_test  == Linhas(dados.X, teste)
        y_train == Linhas(labels, treino)
        y_test  == Linhas(labels, teste)
        modelo  == [ajustado |-> TRUE, coef_ |-> pesos.coef_, intercept_ |-> pesos.intercept_]
        d4      == [dados.det EXCEPT !.modelo = modelo, !.esta_treinado = TRUE]
        metricas == [definidas      |-> TRUE,
                     acuracia_teste |-> <<Acertos(modelo, X_test, y_test), Len(X_test)>>,
                     cv             |-> validacao_cruzada]
    IN  IF dados.erro # ""
        THEN [erro |-> dados.erro, det |-> dados.det, features_treino |-> <<>>]
        ELSE IF SplitFalha(labels)
        THEN [erro |-> "ValueError", det |-> dados.det, features_treino |-> <<>>]
        ELSE IF AucFalha(y_test) \/ (validacao_cruzada /\ ValidacaoFalha(y_train))
        THEN [erro |-> "ValueError", det |-> d4, features_treino |-> Linhas(dados.features, treino)]
        ELSE [erro |-> "", det |-> [d4 EXCEPT !.metricas = metricas],
              features_treino |-> Linhas(dados.features, treino)]

RECURSIVE ArgSort(_, _)
\* np.argsort(v): the indices of S by increasing value, equal values by index
ArgSort(v, S) ==
    IF S = {} THEN <<>>
    ELSE LET i == CHOOSE a \in S : \A b \in S \ {a} : v[a] < v[b] \/ (v[a] = v[b] /\ a < b)
         IN  <<i>> \o ArgSort(v, S \ {i})

Inverter(s) == [i \in 1..Len(s) |-> s[Len(s) + 1 - i]]

\* s[-n:] and s[:n]
Ultimos(s, n) == IF n >= Len(s) THEN s ELSE SubSeq(s, Len(s) - n + 1, Len(s))
Primeiros(s, n) == IF n >= Len(s) THEN s ELSE SubSeq(s, 1, n)

SemPalavras == [phishing |-> <<>>, legitimo |-> <<>>]

obter_palavras_importantes(d, top_n) ==
    LET vocab      == d.extrator.vectorizer.vocabulary_
        coef_tfidf == SubSeq(d.modelo.coef_, 1, Len(vocab))
        ordem      == ArgSort(coef_tfidf, 1..Len(coef_tfidf))
        indices_phishing == Inverter(Ultimos(ordem, top_n))
        indices_legitimo == Primeiros(ordem, top_n)
        Pares(indices) == [k \in 1..Len(indices) |-> <<vocab[indices[k]], coef_tfidf[indices[k]]>>]
    IN  IF ~d.esta_treinado
        THEN [erro |-> "ValueError", ret |-> SemPalavras]
        ELSE [erro |-> "",
              ret  |-> [phishing |-> Pares(indices_phishing), legitimo |-> Pares(indices_legitimo)]]

\* the artifact written by salvar through salvar_modelo: the pickled
\* detector beside its metadata (the timestamp is left out)
salvar(d) ==
    [existe |-> TRUE,
     dados  |-> [modelo   |-> d,
                 metadata |-> [idioma |-> d.idioma, metricas |-> d.metricas]]]

\* carregar building a new detector of the language in the metadata
carregar_reconstruido(arq) ==
    IF ~arq.existe THEN [erro |-> "FileNotFoundError", det |-> arq.dados.modelo]
    ELSE [erro |-> "", det |-> DetectorPhishing(arq.dados.metadata.idioma, SemArquivo)]

\* carregar through carregar_modelo: FileNotFoundError without the file,
\* else the object under the key 'modelo'
carregar(arq) ==
    IF ~arq.existe THEN [erro |-> "FileNotFoundError", det |-> arq.dados.modelo]
    ELSE [erro |-> "", det |-> arq.dados.modelo]

(***************************************************************************)
(* The inputs of the model                                                 *)
(***************************************************************************)

TextoBanco == <<84, 104, 101, 32, 98, 97, 110, 107>>                       \* "The bank"
TextoUrl   == <<104, 116, 116, 112, 58, 47, 47, 97, 46, 98, 32, 78, 79, 87, 33>>  \* "http://a.b NOW!"
TextoVazio == <<>>                                                         \* ""

\* the raw texts given to processar and to the detector
Textos == {TextoBanco, TextoUrl, TextoVazio}

Idiomas == {"english", "portuguese"}

\* The training corpora. CorpusA: 9 documents, 6 legitimate and 3 phishing.
CorpusA ==
    [textos |-> <<TextoBanco, TextoBanco, TextoBanco, TextoVazio, TextoVazio, TextoVazio,
                  TextoUrl, TextoUrl, TextoUrl>>,
     labels |-> <<0, 0, 0, 0, 0, 0, 1, 1, 1>>]

\* CorpusB: 6 documents, with another vocabulary; too few for 5 folds.
CorpusB ==
    [textos |-> <<TextoVazio, TextoVazio, TextoVazio, TextoBanco, TextoBanco, TextoBanco>>,
     labels |-> <<0, 0, 0, 1, 1, 1>>]

\* CorpusPequeno: 5 documents, whose test split of 1 row cannot hold 2 classes.
CorpusPequeno ==
    [textos |-> <<TextoBanco, TextoBanco, TextoUrl, TextoUrl, TextoVazio>>,
     labels |-> <<0, 0, 1, 1, 0>>]

Corpora == {CorpusA, CorpusB, CorpusPequeno}

\* Rows that hold the same text and the same label are interchangeable: of
\* the splits that differ only in which of them they take, the one that
\* takes the first ones stands for all.
TestesDistintos(corpus) ==
    {T \in TestesPossiveis(corpus.labels) :
        \A i \in T : \A j \in 1..(i - 1) :
            (corpus.textos[j] = corpus.textos[i] /\ corpus.labels[j] = corpus.labels[i]) => j \in T}

\* the largest sum of the absolute values of a weight and the intercept that
\* the optimiser returns in the model
MaxPeso == 1

\* The weights LogisticRegression.fit may return for m features: the
\* optimiser is not modelled, any of these vectors may come out.
PesosCandidatos(m) ==
    {[coef_ |-> [j \in 1..m |-> IF j % 2 = 1 THEN kc[1] ELSE -kc[1]], intercept_ |-> kc[2]] :
        kc \in {par \in (-MaxPeso..MaxPeso) \X (-MaxPeso..MaxPeso) : Abs(par[1]) + Abs(par[2]) <= MaxPeso}}

TopNs == {1, 20}

\* arguments of processar that are not texts: None, 0 and 5
Invalidos == { <<-1>>, <<-2, 0>>, <<-2, 5>> }

(***************************************************************************)
(* The web application: the history of analyses of a session               *)
(***************************************************************************)

\* json.dumps of a list of records of strings and numbers, and json.loads of
\* the string: the string is a tagged copy of the list, which is what loads
\* gives back for such lists
json_dumps(lista) == [json |-> lista]

json_loads(texto_json) == texto_json.json

\* obter_historico(): the list under 'historico'
obter_historico(estado) == json_loads(estado)

\* salvar_analise writing the new record after the ones it has
salvar_analise_no_fim(estado, agora, texto, resultado) ==
    json_dumps(Primeiros(json_loads(estado) \o
        << [timestamp     |-> agora,
            texto         |-> IF Len(texto) > 100 THEN SubSeq(texto, 1, 100) \o <<46, 46, 46>> ELSE texto,
            classificacao |-> resultado.classificacao,
            confianca     |-> resultado.confianca,
            nivel_risco   |-> resultado.nivel_risco] >>, 50))

\* salvar_analise(texto, resultado) at the time agora: what is stored under
\* 'historico' afterwards
salvar_analise(estado, agora, texto, resultado) ==
    LET analise == [timestamp     |-> agora,
                    texto         |-> IF Len(texto) > 100
                                      THEN SubSeq(texto, 1, 100) \o <<46, 46, 46>>
                                      ELSE texto,
                    classificacao |-> resultado.classificacao,
                    confianca     |-> resultado.confianca,
                    nivel_risco   |-> resultado.nivel_risco]
        historico == json_loads(estado)
    IN  json_dumps(Primeiros(<<analise>> \o historico, 50))

(***************************************************************************)
(* The initial state: a process with a default preprocessor and a default  *)
(* detector, no snapshot and no artifact on disk                           *)
(***************************************************************************)

SemSaidas == [x \in Textos |-> [rets |-> {}, acertos |-> FALSE, recomputado |-> FALSE]]

SemArtefato == [existe |-> FALSE, dados |-> salvar(DetectorPhishing("english", SemArquivo)).dados]

ChamadaPre(op, arg, ret, via) == [op |-> op, arg |-> arg, ret |-> ret, via |-> via]

\* a call on the detector: its argument (the texts, for treinar), the exception raised ("" for
\* none), the result, and for treinar the feature rows of the training split
Chamada(op, texto, erro, ret, palavras, features_treino) ==
    [op |-> op, texto |-> texto, erro |-> erro, ret |-> ret, palavras |-> palavras,
     features_treino |-> features_treino]

ChamadaSimples(op, erro) == Chamada(op, <<>>, erro, SemResultado, SemPalavras, <<>>)

Init ==
    /\ disco_cache = SemArquivo
    /\ pre = PreprocessadorTexto("english", TRUE, SemArquivo)
    /\ ultimoPre = ChamadaPre("__init__", <<>>, <<>>, "-")
    /\ saidas = SemSaidas
    /\ det = DetectorPhishing("english", SemArquivo)
    /\ arquivo = SemArtefato
    /\ ultimo = ChamadaSimples("__init__", "")
    /\ salvo = DetectorPhishing("english", SemArquivo)
    /\ session_state = json_dumps(<<>>)
    /\ relogio = 0
    /\ analises = <<>>

(***************************************************************************)
(* The preprocessor of a process and the snapshot file it shares           *)
(***************************************************************************)

\* a process starts: a preprocessor is constructed, with any configuration,
\* and loads the snapshot file of the default path
Reiniciar(idioma, remover_stopwords) ==
    /\ pre' = PreprocessadorTexto(idioma, remover_stopwords, disco_cache)
    /\ ultimoPre' = ChamadaPre("__init__", <<>>, <<>>, "-")
    /\ saidas' = SemSaidas
    /\ UNCHANGED <<disco_cache, varsDet, varsApp>>

\* what is remembered of the calls processar(texto), from the first call
\* that took the uncached path on
Anotar(s, texto, r) ==
    IF r.via = "sem_cache"
    THEN [s EXCEPT ![texto] = [rets        |-> @.rets \cup {r.ret},
                               acertos     |-> @.acertos,
                               recomputado |-> @.rets # {}]]
    ELSE IF r.via = "cache" /\ s[texto].rets # {}
    THEN [s EXCEPT ![texto] = [rets        |-> @.rets \cup {r.ret},
                               acertos     |-> TRUE,
                               recomputado |-> @.recomputado]]
    ELSE s

Processar(texto) ==
    \E r \in {processar(pre, texto)} :
        /\ pre' = [pre EXCEPT !.cache = r.cache]
        /\ ultimoPre' = ChamadaPre("processar", texto, r.ret, r.via)
        /\ saidas' = Anotar(saidas, texto, r)
        /\ UNCHANGED <<disco_cache, varsDet, varsApp>>

SalvarCache ==
    /\ disco_cache' = salvar_cache(pre.cache)
    /\ ultimoPre' = ChamadaPre("salvar_cache", <<>>, <<>>, "-")
    /\ UNCHANGED <<pre, saidas, varsDet, varsApp>>

\* limpar empties the dictionary and removes the snapshot file
Limpar ==
    /\ pre' = [pre EXCEPT !.cache = limpar(pre.cache)]
    /\ disco_cache' = SemArquivo
    /\ ultimoPre' = ChamadaPre("limpar", <<>>, <<>>, "-")
    /\ UNCHANGED <<saidas, varsDet, varsApp>>

NextPre ==
    \/ \E idioma \in Idiomas, remover_stopwords \in BOOLEAN : Reiniciar(idioma, remover_stopwords)
    \/ \E texto \in Textos \cup Invalidos : Processar(texto)
    \/ SalvarCache
    \/ Limpar

SpecPre == Init /\ [][NextPre]_vars

(***************************************************************************)
(* The detector of a process: training and classification                  *)
(***************************************************************************)

\* a process constructs a detector; its preprocessor loads the snapshot
NovoDetector(idioma) ==
    /\ det' = DetectorPhishing(idioma, disco_cache)
    /\ ultimo' = ChamadaSimples("__init__", "")
    /\ UNCHANGED <<disco_cache, arquivo, salvo, varsPre, varsApp>>

\* the number of columns of a matrix
Largura(X) == IF X = <<>> THEN 0 ELSE Len(X[1])

\* treinar(textos, labels, validacao_cruzada): the split and the fitted
\* weights are whatever the libraries give
Treinar(corpus) ==
    \E dados \in {preparar_dados(det, corpus.textos, TRUE)}, validacao_cruzada \in BOOLEAN :
        \E teste \in (IF SplitFalha(corpus.labels) THEN {{}} ELSE TestesDistintos(corpus)) :
          \E pesos \in PesosCandidatos(Largura(dados.X)) :
            \E r \in {treinar(dados, corpus.labels, validacao_cruzada, teste, pesos)} :
                /\ det' = r.det
                /\ ultimo' = Chamada("treinar", corpus.textos, r.erro, SemResultado, SemPalavras, r.features_treino)
                /\ UNCHANGED <<disco_cache, arquivo, salvo, varsPre, varsApp>>

Predizer(texto) ==
    \E r \in {predizer(det, texto)} :
        /\ det' = r.det
        /\ ultimo' = Chamada("predizer", texto, r.erro, r.ret, SemPalavras, <<>>)
        /\ UNCHANGED <<disco_cache, arquivo, salvo, varsPre, varsApp>>

AnalisarEmail(texto, mostrar_features) ==
    \E r \in {analisar_email(det, texto, mostrar_features)} :
        /\ det' = r.det
        /\ ultimo' = Chamada("analisar_email", texto, r.erro, r.ret, SemPalavras, <<>>)
        /\ UNCHANGED <<disco_cache, arquivo, salvo, varsPre, varsApp>>

ObterPalavrasImportantes(top_n) ==
    \E r \in {obter_palavras_importantes(det, top_n)} :
        /\ ultimo' = Chamada("obter_palavras_importantes", <<>>, r.erro, SemResultado, r.ret, <<>>)
        /\ UNCHANGED <<disco_cache, det, arquivo, salvo, varsPre, varsApp>>

\* salvar(caminho): the artifact file is written
Salvar ==
    /\ arquivo' = salvar(det)
    /\ salvo' = det
    /\ ultimo' = ChamadaSimples("salvar", "")
    /\ UNCHANGED <<disco_cache, det, varsPre, varsApp>>

\* DetectorPhishing.carregar(caminho): the process holds what it returns
Carregar ==
    \E r \in {carregar(arquivo)} :
        /\ det' = IF r.erro = "" THEN r.det ELSE det
        /\ ultimo' = ChamadaSimples("carregar", r.erro)
        /\ UNCHANGED <<disco_cache, arquivo, salvo, varsPre, varsApp>>

Next ==
    \/ \E idioma \in Idiomas : NovoDetector(idioma)
    \/ \E corpus \in Corpora : Treinar(corpus)
    \/ \E texto \in Textos : Predizer(texto)
    \/ \E texto \in Textos, mostrar_features \in BOOLEAN : AnalisarEmail(texto, mostrar_features)
    \/ \E top_n \in TopNs : ObterPalavrasImportantes(top_n)

Spec == Init /\ [][Next]_vars

(***************************************************************************)
(* The detector of a process and the artifact file: salvar and carregar    *)
(***************************************************************************)

NextPersist ==
    \/ NovoDetector("english")
    \/ Treinar(CorpusA)
    \/ Salvar
    \/ Carregar

SpecPersist == Init /\ [][NextPersist]_vars

\* the operations of a detector together with the artifact file: trainings
\* on two vocabularies, one of which always fails after the weights are fitted
NextVida ==
    \/ NovoDetector("english")
    \/ \E corpus \in {CorpusB, CorpusPequeno} : Treinar(corpus)
    \/ Predizer(TextoUrl)
    \/ AnalisarEmail(TextoBanco, FALSE)
    \/ Salvar
    \/ Carregar

SpecVida == Init /\ [][NextVida]_vars

(***************************************************************************)
(* One CachePreprocessamento called directly                               *)
(***************************************************************************)

\* processed texts given to adicionar: "bank" and "the bank"
Processados == { <<98, 97, 110, 107>>, <<116, 104, 101, 32, 98, 97, 110, 107>> }

\* cache.adicionar(texto_original, texto_processado)
Adicionar(texto_original, texto_processado) ==
    /\ pre' = [pre EXCEPT !.cache = adicionar(pre.cache, texto_original, texto_processado)]
    /\ ultimoPre' = ChamadaPre("adicionar", texto_original, texto_processado, "-")
    /\ UNCHANGED <<disco_cache, saidas, varsDet, varsApp>>

\* cache.obter(texto): via tells a value from None
Obter(texto) ==
    \E r \in {obter(pre.cache, texto)} :
        /\ ultimoPre' = ChamadaPre("obter", texto, r.valor, IF r.achou THEN "valor" ELSE "None")
        /\ UNCHANGED <<disco_cache, pre, saidas, varsDet, varsApp>>

NextCache ==
    \/ \E texto \in Textos, processado \in Processados : Adicionar(texto, processado)
    \/ \E texto \in Textos : Obter(texto)
    \/ Limpar

SpecCache == Init /\ [][NextCache]_vars

(***************************************************************************)
(* One preprocessor normalising batches                                    *)
(***************************************************************************)

\* the batch that repeats the texts of base until it has n of them
Ciclo(base, n) == Lista([i \in 1..n |-> base[((i - 1) % Len(base)) + 1]])

\* batches below, at and above the size where the pool is used, with
\* repeated texts, the empty text and a value that is not a str
Lotes ==
    { <<>>, <<TextoBanco>>, <<TextoUrl, TextoBanco>>, <<TextoBanco, TextoBanco>>,
      <<TextoVazio, <<-1>>, TextoUrl>> }
    \cup { Ciclo(base, n) : base \in { <<TextoUrl, TextoBanco>>,
                                        <<TextoVazio, <<-1>>, TextoBanco>> },
                            n \in {99, 100} }

\* preprocessador.processar_lote(textos, usar_paralelo)
ProcessarLote(textos, usar_paralelo) ==
    \E r \in {processar_lote(pre, textos, usar_paralelo)} :
        /\ pre' = [pre EXCEPT !.cache = r.cache]
        /\ ultimoPre' = ChamadaPre("processar_lote",
                                   [textos |-> textos, usar_paralelo |-> usar_paralelo],
                                   r.rets, r.vias)
        /\ UNCHANGED <<disco_cache, saidas, varsDet, varsApp>>

NextLote ==
    \/ \E idioma \in Idiomas, remover_stopwords \in BOOLEAN : Reiniciar(idioma, remover_stopwords)
    \/ \E textos \in Lotes, usar_paralelo \in BOOLEAN : ProcessarLote(textos, usar_paralelo)
    \/ \E texto \in Textos : Processar(texto)

SpecLote == Init /\ [][NextLote]_vars

(***************************************************************************)
(* carregar_dataset: the labels of a CSV file                              *)
(***************************************************************************)

\* carregar_dataset for a file that exists or not, with the two columns or
\* not, and the label column of its rows without nulls: the exception raised
\* ("" for none) and the numeric labels. The labels are strings; the
\* integers 0 and 1 of a numeric column are written "0" and "1", which
\* str() and max order in the same way.
carregar_dataset(existe, tem_colunas, coluna) ==
    LET positivas == \* phish spam malicious unsafe scam
            { <<112, 104, 105, 115, 104>>, <<115, 112, 97, 109>>, <<109, 97, 108, 105, 99, 105, 111, 117, 115>>, <<117, 110, 115, 97, 102, 101>>, <<115, 99, 97, 109>> }
        negativas == \* safe ham legitimate normal legit
            { <<115, 97, 102, 101>>, <<104, 97, 109>>, <<108, 101, 103, 105, 116, 105, 109, 97, 116, 101>>, <<110, 111, 114, 109, 97, 108>>, <<108, 101, 103, 105, 116>> }
        labels_originais == { coluna[i] : i \in 1..Len(coluna) }
        maior == CHOOSE m \in labels_originais :
                     \A l \in labels_originais : l = m \/ MenorTexto(l, m)
        label_mapping ==
            [label \in labels_originais |->
                IF \E word \in positivas : Contem(Lower(label), word) THEN 1
                ELSE IF \E word \in negativas : Contem(Lower(label), word) THEN 0
                ELSE IF label = maior THEN 1 ELSE 0]
    IN  IF ~existe THEN [erro |-> "FileNotFoundError", labels |-> <<>>]
        ELSE IF ~tem_colunas THEN [erro |-> "KeyError", labels |-> <<>>]
        ELSE [erro   |-> "",
              labels |-> Lista([i \in 1..Len(coluna) |-> label_mapping[coluna[i]]])]

\* label values: spam ham, Phishing Email, Safe Email, not phishing, 0 1, A z
Rotulos ==
    { <<115, 112, 97, 109>>, <<104, 97, 109>>, <<80, 104, 105, 115, 104, 105, 110, 103, 32, 69, 109, 97, 105, 108>>, <<83, 97, 102, 101, 32, 69, 109, 97, 105, 108>>, <<110, 111, 116, 32, 112, 104, 105, 115, 104, 105, 110, 103>>, <<48>>, <<49>>, <<65>>, <<122>> }

MaxLinhas == 3

\* carregar_dataset(caminho) on a file of up to MaxLinhas rows
CarregarDataset(existe, tem_colunas, coluna) ==
    \E r \in {carregar_dataset(existe, tem_colunas, coluna)} :
        /\ ultimoPre' = ChamadaPre("carregar_dataset", coluna, r.labels, r.erro)
        /\ UNCHANGED <<disco_cache, pre, saidas, varsDet, varsApp>>

\* a process that loads one dataset
NextDataset ==
    ultimoPre.op = "__init__" /\ \E existe \in BOOLEAN, tem_colunas \in BOOLEAN :
        \E coluna \in UNION { [1..n -> Rotulos] : n \in 0..MaxLinhas } :
            CarregarDataset(existe, tem_colunas, coluna)

SpecDataset == Init /\ [][NextDataset]_vars

(***************************************************************************)
(* A session of the web application                                        *)
(***************************************************************************)

\* the number of analyses of a session in the model
MaxAnalises == 52

\* the button "Analisar": the analysis is saved with the time of the clock
SalvarAnalise(texto, resultado) ==
    /\ relogio < MaxAnalises
    /\ relogio' = relogio + 1
    /\ session_state' = salvar_analise(session_state, relogio + 1, texto, resultado)
    /\ analises' = << [timestamp |-> relogio + 1, texto |-> texto, resultado |-> resultado] >>
                       \o analises
    /\ UNCHANGED <<disco_cache, varsPre, varsDet>>

\* the button "Limpar Histórico"
LimparHistorico ==
    /\ session_state' = json_dumps(<<>>)
    /\ analises' = <<>>
    /\ UNCHANGED <<disco_cache, relogio, varsPre, varsDet>>

\* the e-mail analysed has 101 characters
NextApp ==
    \/ SalvarAnalise(Ciclo(<<97>>, 101),
                     [classificacao |-> "PHISHING", confianca |-> 9, nivel_risco |-> "ALTO"])
    \/ LimparHistorico

SpecApp == Init /\ [][NextApp]_vars

(***************************************************************************)
(* The text functions on their own: every text made of a few fragments     *)
(***************************************************************************)

Fragmentos ==
    { <<104, 116, 116, 112, 58, 47, 47, 97, 46, 98>>,        \* "http://a.b"
      <<104, 116, 116, 112, 115, 58, 47, 47, 99>>,           \* "https://c"
      <<119, 119, 119, 46>>,                                 \* "www."
      <<104, 116, 116, 112, 58, 47, 47>>,                    \* "http://"
      <<32>>,                                                \* " "
      <<116, 104, 101>>,                                     \* "the"
      <<78, 79, 87, 33>>,                                    \* "NOW!"
      <<201, 49>> }                                          \* "É1"

MaxFragmentos == 3

RECURSIVE Compostos(_)
Compostos(n) ==
    IF n = 0 THEN {<<>>}
    ELSE {t \o f : t \in Compostos(n - 1), f \in Fragmentos \cup {<<>>}}

TextosCompostos == Compostos(MaxFragmentos)

\* extrator.contar_urls(texto)
ContarUrls(texto) ==
    /\ ultimoPre' = ChamadaPre("contar_urls", texto, contar_urls(texto), "-")
    /\ UNCHANGED <<disco_cache, pre, saidas, varsDet, varsApp>>

\* extrator.proporcao_maiusculas(texto)
ProporcaoMaiusculas(texto) ==
    /\ ultimoPre' = ChamadaPre("proporcao_maiusculas", texto, proporcao_maiusculas(texto), "-")
    /\ UNCHANGED <<disco_cache, pre, saidas, varsDet, varsApp>>

\* pre._processar_sem_cache(texto)
ProcessarSemCache(texto) ==
    /\ ultimoPre' = ChamadaPre("_processar_sem_cache", texto, _processar_sem_cache(pre, texto), "-")
    /\ UNCHANGED <<disco_cache, pre, saidas, varsDet, varsApp>>

\* a process that constructs a preprocessor of any configuration and applies
\* one of the functions to one text
\* the words of the phrases: The now NOW a bank banker É de
Palavras ==
    { <<84, 104, 101>>, <<110, 111, 119>>, <<78, 79, 87>>, <<97>>, <<98, 97, 110, 107>>, <<98, 97, 110, 107, 101, 114>>, <<201>>, <<100, 101>> }

MaxPalavras == 3

\* the phrases of up to MaxPalavras words, one space between two words
Frases == { Join(palavras) : palavras \in UNION { [1..n -> Palavras] : n \in 0..MaxPalavras } }

\* preprocessador.remover_stopwords_texto(texto)
RemoverStopwordsTexto(texto) ==
    /\ ultimoPre' = ChamadaPre("remover_stopwords_texto", texto, remover_stopwords_texto(pre, texto), "-")
    /\ UNCHANGED <<disco_cache, pre, saidas, varsDet, varsApp>>

\* extrator.detectar_palavras_urgencia(texto)
DetectarPalavrasUrgencia(texto) ==
    /\ ultimoPre' = ChamadaPre("detectar_palavras_urgencia", texto, detectar_palavras_urgencia(texto), "-")
    /\ UNCHANGED <<disco_cache, pre, saidas, varsDet, varsApp>>

\* extrator.detectar_palavras_financeiras(texto)
DetectarPalavrasFinanceiras(texto) ==
    /\ ultimoPre' = ChamadaPre("detectar_palavras_financeiras", texto, detectar_palavras_financeiras(texto), "-")
    /\ UNCHANGED <<disco_cache, pre, saidas, varsDet, varsApp>>

NextTexto ==
    \/ \E idioma \in Idiomas, remover_stopwords \in BOOLEAN : Reiniciar(idioma, remover_stopwords)
    \/ ultimoPre.op = "__init__" /\ \E texto \in TextosCompostos : ContarUrls(texto)
    \/ ultimoPre.op = "__init__" /\ \E texto \in TextosCompostos : ProporcaoMaiusculas(texto)
    \/ ultimoPre.op = "__init__" /\ \E texto \in TextosCompostos : ProcessarSemCache(texto)
    \/ ultimoPre.op = "__init__" /\ \E texto \in Frases : RemoverStopwordsTexto(texto)
    \/ ultimoPre.op = "__init__" /\ \E texto \in Frases : DetectarPalavrasUrgencia(texto)
    \/ ultimoPre.op = "__init__" /\ \E texto \in Frases : DetectarPalavrasFinanceiras(texto)

SpecTexto == Init /\ [][NextTexto]_vars

(***************************************************************************)
(* Claims about the preprocessor and its cache                             *)
(***************************************************************************)

\* C1 (as claimed): processar(x) returns exactly what the uncached
\* normalisation _processar_sem_cache(x) returns under the configuration of
\* the preprocessor that was called, whatever the cache and the snapshot hold.
C1_CacheTransparente ==
    (ultimoPre.op = "processar" /\ isinstance_str(ultimoPre.arg)) =>
        ultimoPre.ret = _processar_sem_cache(pre, ultimoPre.arg)

\* C2: on one preprocessor, from the first call processar(x) that took the
\* uncached path on, every call processar(x) returns the same string, whatever
\* calls on other texts, flushes and clears happen in between.
C2_ProcessarDeterministico ==
    \A x \in Textos : Cardinality(saidas[x].rets) <= 1

\* C2 happens: a text was computed uncached, served from the cache, and
\* computed again after a clear
C2_Witness ==
    \E x \in Textos :
        /\ saidas[x].acertos
        /\ saidas[x].recomputado
        /\ saidas[x].rets # {x}

\* C14: processar called with None, a value that is not a string or the
\* empty string returns the empty string, looks nothing up in the cache and
\* leaves the cache and the snapshot file as they were.
C14_EntradaInvalida ==
    [][(/\ ultimoPre'.op = "processar"
        /\ (ultimoPre'.arg = <<>> \/ ~isinstance_str(ultimoPre'.arg))) =>
           /\ ultimoPre'.ret = <<>>
           /\ ultimoPre'.via = "vazio"
           /\ pre' = pre
           /\ disco_cache' = disco_cache]_vars

\* C14 happens: processar(None) on a preprocessor whose cache holds entries
C14_Witness ==
    /\ ultimoPre.op = "processar"
    /\ ultimoPre.arg = <<-1>>
    /\ ultimoPre.ret = <<>>
    /\ DOMAIN pre.cache.cache_memoria # {}

\* C15: adicionar(x, v) makes obter(x) return v and changes obter of no
\* other text; obter changes nothing and returns what the cache holds;
\* after limpar obter returns None for every text. So obter(x) is the value
\* of the latest adicionar(x, .) since the last limpar, and None without one.
C15_SemanticaDeMapa ==
    [][/\ ultimoPre'.op = "adicionar" =>
             /\ obter(pre'.cache, ultimoPre'.arg) = [achou |-> TRUE, valor |-> ultimoPre'.ret]
             /\ \A y \in Textos \ {ultimoPre'.arg} :
                   obter(pre'.cache, y) = obter(pre.cache, y)
       /\ ultimoPre'.op = "obter" =>
             /\ pre' = pre
             /\ (ultimoPre'.via = "valor") = obter(pre.cache, ultimoPre'.arg).achou
             /\ ultimoPre'.ret = obter(pre.cache, ultimoPre'.arg).valor
       /\ ultimoPre'.op = "limpar" =>
             \A y \in Textos : ~obter(pre'.cache, y).achou]_vars

\* C15 happens: obter returned the value of one text while the cache holds a
\* different value for another text
C15_Witness ==
    /\ ultimoPre.op = "obter"
    /\ ultimoPre.via = "valor"
    /\ \E y \in Textos \ {ultimoPre.arg} :
          /\ obter(pre.cache, y).achou
          /\ obter(pre.cache, y).valor # ultimoPre.ret

Classificacoes == {"predizer", "analisar_email", "obter_palavras_importantes"}

\* what a caller reads of an analysis: the label, its name, the log-odds
\* behind the probability, the probability and the risk band
Resultado(ret) ==
    <<ret.predicao, ret.classificacao, ret.decisao, ret.probabilidade, ret.nivel_risco>>

\* C3: on a trained detector that is not retrained, a classification call
\* leaves the result of analisar_email unchanged for every text, and the
\* result analisar_email(x) returned is the one the next analisar_email(x)
\* returns, also when the first normalised x afresh and the next is served
\* from the cache.
C3_AnaliseDeterministica ==
    [][(ultimo'.op \in Classificacoes /\ det.esta_treinado) =>
          /\ det' # det =>
                \A x \in Textos :
                    Resultado(analisar_email(det', x, FALSE).ret)
                        = Resultado(analisar_email(det, x, FALSE).ret)
          /\ ultimo'.op = "analisar_email" =>
                /\ ultimo'.erro = ""
                /\ Resultado(ultimo'.ret)
                        = Resultado(analisar_email(det', ultimo'.texto, FALSE).ret)]_vars

\* C3 happens: an analysis that normalised its text afresh, with log-odds
\* that depend on the text, and whose repetition is served from the cache
C3_Witness ==
    /\ ultimo.op = "analisar_email"
    /\ ultimo.erro = ""
    /\ ultimo.ret.via = "sem_cache"
    /\ ultimo.ret.decisao # det.modelo.intercept_
    /\ analisar_email(det, ultimo.texto, FALSE).ret.via = "cache"

\* C5: the risk band of an analysis is BAIXO below 0.3, MEDIO from 0.3 to
\* below 0.7 and ALTO from 0.7 on (probabilities in tenths).
C5_FaixasDeRisco ==
    (ultimo.op = "analisar_email" /\ ultimo.erro = "") =>
        /\ ultimo.ret.probabilidade < 3 => ultimo.ret.nivel_risco = "BAIXO"
        /\ (3 <= ultimo.ret.probabilidade /\ ultimo.ret.probabilidade < 7)
              => ultimo.ret.nivel_risco = "MEDIO"
        /\ ultimo.ret.probabilidade >= 7 => ultimo.ret.nivel_risco = "ALTO"

\* C5 happens: an analysis whose probability is in the tenth that starts at
\* the boundary 0.7
C5_Witness ==
    /\ ultimo.op = "analisar_email"
    /\ ultimo.erro = ""
    /\ ultimo.ret.probabilidade = 7
    /\ ultimo.ret.nivel_risco = "ALTO"

\* C6 (as claimed): the label of predizer and analisar_email is 1 exactly
\* when the probability is at least 0.5.
C6_RotuloPorProbabilidade ==
    (ultimo.op \in {"predizer", "analisar_email"} /\ ultimo.erro = "") =>
        (ultimo.ret.predicao = 1 <=> ultimo.ret.probabilidade >= 5)

\* C6 (amended): the label is 1 exactly when the log-odds are above 0, so it
\* is 1 for a probability above 0.5, 0 for one below 0.5, and 0 for the
\* probability 0.5 of log-odds exactly 0; analisar_email names the label.
C6_RotuloPorDecisao ==
    (ultimo.op \in {"predizer", "analisar_email"} /\ ultimo.erro = "") =>
        /\ ultimo.ret.predicao = 1 <=> ultimo.ret.decisao > 0
        /\ ultimo.ret.predicao \in {0, 1}
        /\ ultimo.ret.probabilidade > 5 => ultimo.ret.predicao = 1
        /\ ultimo.ret.probabilidade < 5 => ultimo.ret.predicao = 0
        /\ ultimo.ret.decisao = 0 =>
              ultimo.ret.probabilidade = 5 /\ ultimo.ret.predicao = 0
        /\ ultimo.op = "analisar_email" =>
              ultimo.ret.classificacao =
                  IF ultimo.ret.predicao = 1 THEN "PHISHING" ELSE "LEGITIMO"

\* C6 happens: an analysis with log-odds exactly 0
C6_Witness ==
    /\ ultimo.op = "analisar_email"
    /\ ultimo.erro = ""
    /\ ultimo.ret.decisao = 0
    /\ ultimo.ret.probabilidade = 5
    /\ ultimo.ret.classificacao = "LEGITIMO"

\* C7: while no fit of the classifier has completed, predizer, analisar_email
\* and obter_palavras_importantes raise, return nothing and leave the
\* detector, the artifact and the snapshot file as they were.
C7_NaoTreinado ==
    [][(ultimo'.op \in Classificacoes /\ ~det.modelo.ajustado) =>
          /\ ultimo'.erro = "ValueError"
          /\ ultimo'.ret = SemResultado
          /\ ultimo'.palavras = SemPalavras
          /\ det' = det
          /\ arquivo' = arquivo
          /\ disco_cache' = disco_cache]_vars

\* C7 happens: analisar_email refused after a treinar that fitted the
\* vocabulary and the scaler and failed before fitting the classifier
C7_Witness ==
    /\ ultimo.op = "analisar_email"
    /\ ultimo.erro = "ValueError"
    /\ det.scaler.ajustado
    /\ ~det.modelo.ajustado

\* the six hand-crafted values of a text, each from its own method
SeisManuais(processado, original) ==
    << 10 * contar_urls(processado),
       EmDecimos(proporcao_maiusculas(original)),
       10 * contar_caracteres_especiais(original),
       10 * detectar_palavras_urgencia(processado),
       10 * detectar_palavras_financeiras(processado),
       10 * tamanho_texto(processado) >>

\* C8: with a fitted vocabulary of V terms, the feature row of every text,
\* the empty one included, has V + 6 entries: the V lexical weights, then
\* url_count, uppercase_ratio, special_char_count, urgency_word_count,
\* financial_word_count and word_count.
C8_ComprimentoDoVetor ==
    det.extrator.vectorizer.ajustado =>
        \A x \in Textos :
            LET processado == _processar_sem_cache(det.preprocessador, x)
                V     == Len(det.extrator.vectorizer.vocabulary_)
                r     == extrair_features_completas(det.extrator.vectorizer,
                                                    <<processado>>, <<x>>)
                linha == r.X[1]
            IN  /\ r.erro = ""
                /\ Len(r.X) = 1
                /\ Len(linha) = V + 6
                /\ SubSeq(linha, 1, V)
                      = transformar_tfidf(det.extrator.vectorizer, <<processado>>)[1]
                /\ SubSeq(linha, V + 1, V + 6) = SeisManuais(processado, x)
                /\ (ultimo.op \in {"predizer", "analisar_email"} /\ ultimo.erro = ""
                        /\ ultimo.texto = x)
                      => ultimo.ret.linha = linha

\* C8 happens: the empty text was classified with a vocabulary of four terms
C8_Witness ==
    /\ ultimo.op = "predizer"
    /\ ultimo.erro = ""
    /\ ultimo.texto = TextoVazio
    /\ Len(det.extrator.vectorizer.vocabulary_) = 4
    /\ Len(ultimo.ret.linha) = 10

\* C9 (as claimed): the scaler a treinar call has fitted holds the statistics
\* of the rows of the training side of the split alone.
C9_ScalerSoDoTreino ==
    (ultimo.op = "treinar" /\ ultimo.features_treino # <<>>) =>
        det.scaler = ScalerFit(ultimo.features_treino)

\* C17 (as claimed): a predizer or analisar_email call on a trained detector
\* leaves the whole detector, the normalisation cache included, as it was.
C17_ClassificarSemEstado ==
    [][(ultimo'.op \in {"predizer", "analisar_email"} /\ det.esta_treinado) =>
          det' = det]_vars

\* C18 (as claimed): the six values of the snapshot attached by
\* analisar_email with mostrar_features are the six hand-crafted entries,
\* before scaling, of the feature row the same call classified.
C18_SnapshotFiel ==
    (ultimo.op = "analisar_email" /\ ultimo.erro = "" /\ ultimo.ret.com_features) =>
        SubSeq(ultimo.ret.linha, Len(ultimo.ret.linha) - 5, Len(ultimo.ret.linha))
            = << 10 * ultimo.ret.features.num_urls,
                 EmDecimos(ultimo.ret.features.prop_maiusculas),
                 10 * ultimo.ret.features.num_especiais,
                 10 * ultimo.ret.features.palavras_urgencia,
                 10 * ultimo.ret.features.palavras_financeiras,
                 10 * ultimo.ret.features.tamanho_texto >>

\* C19 (as claimed): obter_palavras_importantes lists under 'phishing' only
\* terms with a positive coefficient and under 'legitimo' only terms with a
\* negative one, whatever top_n.
C19_SinaisSeparados ==
    (ultimo.op = "obter_palavras_importantes" /\ ultimo.erro = "") =>
        /\ \A k \in 1..Len(ultimo.palavras.phishing) : ultimo.palavras.phishing[k][2] > 0
        /\ \A k \in 1..Len(ultimo.palavras.legitimo) : ultimo.palavras.legitimo[k][2] < 0

\* what a first training on these texts fits: the vocabulary of the batch as
\* the detector's preprocessor normalises it, and the feature rows of the batch
AjusteDoCorpus(d, textos, lote, tfidf) ==
    [vectorizer |-> tfidf.vectorizer,
     features   |-> extrair_features_completas(tfidf.vectorizer, lote.rets, textos).X]

\* C23 (as claimed): a treinar call that succeeds leaves a vocabulary and
\* scaling parameters fit on the texts of that call, and weights for the
\* features of that vocabulary, whether or not the detector was trained before.
C23_TreinoAjustaTudo ==
    [][(ultimo'.op = "treinar" /\ ultimo'.erro = "") =>
          \E lote \in {processar_lote(det.preprocessador, ultimo'.texto, TRUE)} :
            \E ajuste \in {AjusteDoCorpus(det, ultimo'.texto, lote,
                                          treinar_tfidf(det.extrator.vectorizer, lote.rets))} :
                /\ det'.extrator.vectorizer = ajuste.vectorizer
                /\ det'.scaler = ScalerFit(ajuste.features)
                /\ Len(det'.modelo.coef_) = Len(ajuste.vectorizer.vocabulary_) + 6
      ]_vars

\* C28 (as claimed): the trained flag is set only with the metrics of the
\* training stored; no treinar call leaves it set without them.
C28_TreinadoComMetricas ==
    det.esta_treinado => det.metricas.definidas

\* C29: in every result of analisar_email the band ALTO comes with the label
\* PHISHING and the band BAIXO with the label LEGITIMO.
C29_RotuloEFaixa ==
    (ultimo.op = "analisar_email" /\ ultimo.erro = "") =>
        /\ ultimo.ret.nivel_risco = "ALTO" => ultimo.ret.classificacao = "PHISHING"
        /\ ultimo.ret.nivel_risco = "BAIXO" => ultimo.ret.classificacao = "LEGITIMO"
        /\ ultimo.ret.nivel_risco \in {"BAIXO", "MEDIO", "ALTO"}

\* C29 witness: an analysis in the lowest band, labelled legitimate
C29_Witness ==
    /\ ultimo.op = "analisar_email"
    /\ ultimo.erro = ""
    /\ ultimo.ret.nivel_risco = "BAIXO"
    /\ ultimo.ret.classificacao = "LEGITIMO"
    /\ ultimo.ret.decisao < 0

(***************************************************************************)
(* Claims about the artifact                                               *)
(***************************************************************************)

PipelineCompleto(d) ==
    /\ d.esta_treinado
    /\ d.extrator.vectorizer.ajustado
    /\ d.scaler.ajustado
    /\ d.modelo.ajustado
    /\ Len(d.modelo.coef_) = Len(d.extrator.vectorizer.vocabulary_) + 6

\* C10 (as claimed): carregar returns a detector only from an artifact that
\* holds a complete fitted pipeline whose weights match its vocabulary, and
\* fails otherwise.
C10_CarregarValida ==
    (ultimo.op = "carregar" /\ ultimo.erro = "") => PipelineCompleto(det)

(***************************************************************************)
(* Claims about the features of the pipeline                               *)
(***************************************************************************)

\* C11 (as claimed): in the feature row predizer builds for a document, the
\* entry num_urls, the first after the lexical weights, is the number of URLs
\* in the original text of the document.
C11_UrlsDoOriginal ==
    (ultimo.op \in {"predizer", "analisar_email"} /\ ultimo.erro = "") =>
        ultimo.ret.linha[Len(det.extrator.vectorizer.vocabulary_) + 1]
            = 10 * urls_encontradas(ultimo.texto)

(***************************************************************************)
(* Claims about the text functions                                         *)
(***************************************************************************)

\* C12 (as claimed): for every raw text, contar_urls counts exactly the URLs
\* that limpar_url replaces by the sentinel in the case-folded text, each
\* once.
C12_ContagemIgualSubstituicao ==
    ultimoPre.op = "contar_urls" =>
        ultimoPre.ret = urls_encontradas(Lower(ultimoPre.arg))

RECURSIVE IniciosDeUrl(_, _)
\* the positions of s, from i on, where a URL replaced by limpar_url starts
IniciosDeUrl(s, i) ==
    IF i > Len(s) THEN {}
    ELSE IF CasaUrl(s, i) > 0 THEN {i} \cup IniciosDeUrl(s, i + CasaUrl(s, i))
    ELSE IniciosDeUrl(s, i + 1)

EhSentinela(palavra) == palavra = URL_TOKEN

TemMaiuscula(palavra) == \E i \in 1..Len(palavra) : EhMaiuscula(palavra[i])

\* C13: the normalised form of a text holds one token URL_TOKEN for each URL
\* replaced in the case-folded text; the sentinel is the only token with
\* upper-case letters, so none is left altered; and at every URL the output
\* is the tokens of what precedes the URL followed by the tokens of the rest,
\* which start with the sentinel of that URL.
C13_SentinelaPreservada ==
    ultimoPre.op = "_processar_sem_cache" =>
        LET x     == ultimoPre.arg
            saida == Split(ultimoPre.ret)
        IN  /\ Len(SelectSeq(saida, EhSentinela)) = urls_encontradas(Lower(x))
            /\ \A k \in 1..Len(saida) : TemMaiuscula(saida[k]) => saida[k] = URL_TOKEN
            /\ \A i \in IniciosDeUrl(Lower(x), 1) :
                  LET resto == Split(_processar_sem_cache(pre, SubSeq(x, i, Len(x))))
                  IN  /\ resto # <<>>
                      /\ Head(resto) = URL_TOKEN
                      /\ saida = Split(_processar_sem_cache(pre, SubSeq(x, 1, i - 1))) \o resto

\* C13 happens: a text with two URLs was normalised with stopword removal
C13_Witness ==
    /\ ultimoPre.op = "_processar_sem_cache"
    /\ pre.remover_stopwords
    /\ urls_encontradas(Lower(ultimoPre.arg)) = 2
    /\ ultimoPre.ret = URL_TOKEN \o <<32>> \o URL_TOKEN

\* C20: proporcao_maiusculas is the number of upper-case letters over the
\* number of alphabetic characters of the text, 0.0 for the empty text and
\* for a text without letters, and always between 0 and 1.
C20_ProporcaoMaiusculas ==
    ultimoPre.op = "proporcao_maiusculas" =>
        LET texto      == ultimoPre.arg
            letras     == { i \in 1..Len(texto) : EhLetra(texto[i]) }
            maiusculas == { i \in letras : EhMaiuscula(texto[i]) }
            razao      == ultimoPre.ret
        IN  /\ razao[2] > 0
            /\ 0 <= razao[1] /\ razao[1] <= razao[2]
            /\ letras = {} => razao[1] = 0
            /\ letras # {} =>
                   razao[1] * Cardinality(letras) = Cardinality(maiusculas) * razao[2]

\* C20 witness: three upper-case letters out of six, in a text that also has
\* a space and a punctuation mark ("NOW! the")
C20_Witness ==
    /\ ultimoPre.op = "proporcao_maiusculas"
    /\ ultimoPre.ret = <<3, 6>>
    /\ Len(ultimoPre.arg) = 8


(***************************************************************************)
(* Claims about batches                                                    *)
(***************************************************************************)

\* C21 (as claimed): when processar_lote has returned, on either path, the
\* cache of the preprocessor that was called holds, for every non-empty
\* string of the batch, an entry equal to the string returned for it.
C21_LotePovoaCache ==
    ultimoPre.op = "processar_lote" =>
        \A i \in 1..Len(ultimoPre.arg.textos) :
            LET texto == ultimoPre.arg.textos[i]
            IN  (texto # <<>> /\ isinstance_str(texto)) =>
                    /\ obter(pre.cache, texto).achou
                    /\ obter(pre.cache, texto).valor = ultimoPre.ret[i]

\* C22: processar_lote is sequential below 100 texts or with usar_paralelo
\* off and uses the pool otherwise; on both paths the list returned is as
\* long as the batch and its i-th string is what processar returns for the
\* i-th text, before the call and after it.
C22_CaminhosEquivalentes ==
    [][ultimoPre'.op = "processar_lote" =>
          LET textos == ultimoPre'.arg.textos
              pool   == ultimoPre'.arg.usar_paralelo /\ Len(textos) >= 100
          IN  /\ Len(ultimoPre'.ret) = Len(textos)
              /\ \A i \in 1..Len(textos) :
                    /\ ultimoPre'.ret[i] = processar(pre, textos[i]).ret
                    /\ ultimoPre'.ret[i] = processar(pre', textos[i]).ret
                    /\ (ultimoPre'.via[i] = "pool") = pool
      ]_vars

\* C22 witness: a batch of 100 texts of two kinds went through the pool and
\* came back in the order it was given
C22_Witness ==
    /\ ultimoPre.op = "processar_lote"
    /\ Len(ultimoPre.arg.textos) = 100
    /\ ultimoPre.via[100] = "pool"
    /\ ultimoPre.ret[1] # ultimoPre.ret[2]
    /\ ultimoPre.ret[2] = _processar_sem_cache(pre, TextoBanco)

(***************************************************************************)
(* Claims about the detector over its whole life                           *)
(***************************************************************************)

\* C24: whenever the trained flag is set, the weight vector of the
\* classifier and the mean and variance vectors of the scaler have V + 6
\* entries each, V being the size of the vocabulary.
C24_ComprimentosCoerentes ==
    det.esta_treinado =>
        /\ Len(det.modelo.coef_) = Len(det.extrator.vectorizer.vocabulary_) + 6
        /\ Len(det.scaler.mean_) = Len(det.extrator.vectorizer.vocabulary_) + 6
        /\ Len(det.scaler.var_) = Len(det.extrator.vectorizer.vocabulary_) + 6

\* C24 witness: a detector whose training failed after the weights were
\* fitted was saved and loaded again, flag set and no metrics
C24_Witness ==
    /\ ultimo.op = "carregar"
    /\ ultimo.erro = ""
    /\ det.esta_treinado
    /\ ~det.metricas.definidas
    /\ Len(det.modelo.coef_) > 6

\* C25: remover_stopwords_texto removes no word of the protected urgency set
\* and removes every word whose lower-case form is in the stopword list of
\* the configured language and is not protected; without stopword removal
\* the text comes back as it is.
C25_ProtegidasSobrevivem ==
    ultimoPre.op = "remover_stopwords_texto" =>
        LET entrada == Split(ultimoPre.arg)
            saida   == Split(ultimoPre.ret)
            lista   == IF pre.remover_stopwords THEN StopwordsNltk(pre.idioma) ELSE {}
            Vezes(palavras, w) == Cardinality({k \in 1..Len(palavras) : palavras[k] = w})
        IN  /\ \A k \in 1..Len(entrada) :
                  Lower(entrada[k]) \in palavras_urgencia_pre =>
                      Vezes(saida, entrada[k]) = Vezes(entrada, entrada[k])
            /\ \A k \in 1..Len(saida) :
                  Lower(saida[k]) \in lista => Lower(saida[k]) \in palavras_urgencia_pre
            /\ ~pre.remover_stopwords => ultimoPre.ret = ultimoPre.arg

\* C25 witness: "The now NOW" on an English preprocessor loses "The" and
\* keeps both spellings of the protected word, which NLTK lists as a stopword
C25_Witness ==
    /\ ultimoPre.op = "remover_stopwords_texto"
    /\ pre.remover_stopwords /\ pre.idioma = "english"
    /\ <<110, 111, 119>> \in StopwordsNltk(pre.idioma)
    /\ Len(Split(ultimoPre.arg)) = 3
    /\ ultimoPre.ret = <<110, 111, 119, 32, 78, 79, 87>>

\* C26 (as claimed): the urgency count and the financial count of a text are
\* the number of its words that are, in lower case, a keyword of the list,
\* each occurrence counted and nothing but whole words.
C26_ContagemDePalavras ==
    /\ ultimoPre.op = "detectar_palavras_urgencia" =>
           ultimoPre.ret = Cardinality({k \in 1..Len(Split(ultimoPre.arg)) :
               \E j \in 1..Len(palavras_urgencia) :
                   Lower(Split(ultimoPre.arg)[k]) = palavras_urgencia[j]})
    /\ ultimoPre.op = "detectar_palavras_financeiras" =>
           ultimoPre.ret = Cardinality({k \in 1..Len(Split(ultimoPre.arg)) :
               \E j \in 1..Len(palavras_financeiras) :
                   Lower(Split(ultimoPre.arg)[k]) = palavras_financeiras[j]})

(***************************************************************************)
(* Claims about the dataset loader                                         *)
(***************************************************************************)

\* C27 (as claimed): carregar_dataset gives every label value one number of
\* {0, 1}, and a dataset with exactly two label values gets both numbers.
C27_DuasClasses ==
    (ultimoPre.op = "carregar_dataset" /\ ultimoPre.via = "") =>
        LET coluna == ultimoPre.arg
            labels == ultimoPre.ret
        IN  /\ Len(labels) = Len(coluna)
            /\ \A i \in 1..Len(labels) : labels[i] \in {0, 1}
            /\ \A i, j \in 1..Len(labels) : coluna[i] = coluna[j] => labels[i] = labels[j]
            /\ Cardinality({coluna[i] : i \in 1..Len(coluna)}) = 2 =>
                   {labels[i] : i \in 1..Len(labels)} = {0, 1}

(***************************************************************************)
(* Claims about the web application                                        *)
(***************************************************************************)

\* C30: the stored history holds at most 50 records, newest first, and they
\* are the 50 most recent analyses saved since the history was last cleared
\* (all of them when there are fewer).
C30_HistoricoLimitado ==
    LET historico == obter_historico(session_state)
    IN  /\ Len(historico) <= 50
        /\ Len(historico) = IF Len(analises) < 50 THEN Len(analises) ELSE 50
        /\ \A i \in 1..Len(historico) :
              /\ historico[i].timestamp = analises[i].timestamp
              /\ historico[i].classificacao = analises[i].resultado.classificacao
              /\ historico[i].confianca = analises[i].resultado.confianca
              /\ historico[i].nivel_risco = analises[i].resultado.nivel_risco
              /\ SubSeq(historico[i].texto, 1, 100) = SubSeq(analises[i].texto, 1, 100)
        /\ \A i, j \in 1..Len(historico) :
              i < j => historico[i].timestamp > historico[j].timestamp

\* C30 witness: 51 analyses were saved since the last clear, which followed
\* an earlier one; the history holds 50 and the oldest is gone
C30_Witness ==
    /\ Len(analises) = 51
    /\ relogio = 52
    /\ Len(obter_historico(session_state)) = 50
    /\ obter_historico(session_state)[50].timestamp = 3
=============================================================================
